---- MODULE Spec2Model ----
\* Model of the telemetry client (class Client, libs/api): one WebSocket, the
\* handshake, the per-message handler and the per-axis listener registry;
\* of the development tooling around it: the browser console logger and the
\* debug servers it talks to; and of the bounds handling of a DraggablePanel.
\*
\* A wire message is the sequence of its segments, i.e. the text between `|`
\* characters: "pid|42" is <<"pid", "42">>, "echo|" is <<"echo", "">> and a
\* text without any `|` is a one-element sequence.  message.split("|") is
\* therefore the message itself.
EXTENDS Integers, Sequences, FiniteSets, TLC

\* ---------------------------------------------------------------- bounds
\* inbound messages delivered on the connection
MaxMsgs == 2
\* addListener calls made on the client
MaxRegs == 2

\* ---------------------------------------------------------------- JSON values
\* A value found at an axis path: t is the JavaScript type, s the member name
\* of an object ({CurrentAngle: n} / {Rotation: n}) or the contents of a
\* string, n the number.
Undefined == [t |-> "undefined", s |-> "", n |-> 0]
JNumber(n) == [t |-> "number", s |-> "", n |-> n]
JObject(member, n) == [t |-> "object", s |-> member, n |-> n]
JString(s) == [t |-> "string", s |-> s, n |-> 0]

\* JavaScript truthiness of a value (the test of an `if`).
Truthy(v) ==
    \/ v.t = "object"
    \/ v.t = "number" /\ v.n # 0
    \/ v.t = "boolean" /\ v.n # 0
    \/ v.t = "string" /\ v.s # ""

\* The enum AXIS: axis name -> component id inside d.C.
AXIS == [BRAKE |-> "1_15r0", THROTTLE |-> "1_13r0", CLUTCH |-> "1_14r0", STEERING |-> "1_2"]

\* A parsed frame.  NoMember stands for a member that is absent.
NoMember == [t |-> "undefined"]
Frame(components) == [t |-> "object", d |-> [t |-> "object", C |-> [t |-> "object", m |-> components]]]
FrameNoC == [t |-> "object", d |-> [t |-> "object", C |-> NoMember]]
EmptyObject == [t |-> "object", d |-> NoMember]

\* this.data?.d?.C?.[key]
Lookup(dat, key) ==
    IF dat.t # "object" THEN Undefined
    ELSE IF dat.d.t # "object" THEN Undefined
    ELSE IF dat.d.C.t # "object" THEN Undefined
    ELSE IF key \in DOMAIN dat.d.C.m THEN dat.d.C.m[key]
    ELSE Undefined

\* ---------------------------------------------------------------- payload texts
TxtSteerNeg5 == "{\"d\":{\"C\":{\"1_2\":{\"Rotation\":-5}}}}"
TxtBoth == "{\"d\":{\"C\":{\"1_15r0\":{\"CurrentAngle\":17},\"1_2\":{\"Rotation\":5}}}}"
TxtSteer0 == "{\"d\":{\"C\":{\"1_2\":0}}}"
TxtNoC == "{\"d\":{}}"
TxtBad == "{\"d\":"
\* the two segments of the payload {"d":{"C":{"1_2":"L|R"}}}
TxtPipeHead == "{\"d\":{\"C\":{\"1_2\":\"L"
TxtPipeTail == "R\"}}}"

\* JSON.parse on the payload texts above; any other text (and undefined, the
\* value of response[1] when the message has no `|`) makes JSON.parse throw.
JSONParse(text) ==
    CASE text = TxtSteerNeg5 -> [ok |-> TRUE, v |-> Frame("1_2" :> JObject("Rotation", -5))]
      [] text = TxtBoth -> [ok |-> TRUE, v |-> Frame("1_15r0" :> JObject("CurrentAngle", 17) @@ "1_2" :> JObject("Rotation", 5))]
      [] text = TxtSteer0 -> [ok |-> TRUE, v |-> Frame("1_2" :> JNumber(0))]
      [] text = TxtNoC -> [ok |-> TRUE, v |-> FrameNoC]
      [] OTHER -> [ok |-> FALSE, v |-> EmptyObject]

\* ---------------------------------------------------------------- inputs
EchoAck == <<"-1", "echo">>
Inbound ==
    { EchoAck,
      <<"garbage">>,
      <<"42", TxtBad>>,
      <<"7", TxtSteerNeg5>>,
      <<"7", TxtBoth>>,
      <<"42", TxtSteer0>>,
      <<"42", TxtNoC>> }
\* addListener calls a consumer may make: <<axis, callback>>
Registrations == {<<"BRAKE", "f">>, <<"STEERING", "f">>, <<"STEERING", "g">>}

\* Inputs for consumers whose callbacks register or throw, and for a frame
\* whose payload holds a `|`: "7|{...:"L|R"}}}" is three segments.
PipeMsg == <<"7", TxtPipeHead, TxtPipeTail>>
CallbackInbound ==
    { <<"7", TxtBoth>>,
      <<"7", TxtSteerNeg5>>,
      <<"42", TxtSteer0>>,
      PipeMsg }
CallbackRegistrations ==
    {<<"BRAKE", "regS">>, <<"BRAKE", "f">>, <<"STEERING", "f">>, <<"STEERING", "picky">>}

\* Two clients alive at once, as after the two mounts of a StrictMode render.
Clients == {1, 2}
\* operations on the two clients together
MaxTwinOps == 3
TwinInbound == {EchoAck, <<"7", TxtBoth>>}
\* each mount registers closures of its own
TwinRegistrations(c) ==
    IF c = 1 THEN {<<"STEERING", "f">>, <<"BRAKE", "f">>}
    ELSE {<<"STEERING", "g">>, <<"BRAKE", "g">>}

\* ---------------------------------------------------------------- state
VARIABLES
    readyState,   \* of the socket made by createSocket: CONNECTING, OPEN, CLOSED
    listeners,    \* this.listeners, in property-insertion order: <<[axi, fns]>>
    data,         \* this.data
    sent,         \* every message passed to socket.send, one element per call
    log,          \* what each onmessage and addListener call did, in order
    sockets,      \* number of `new WebSocket(...)` evaluated by this instance
    mounted,      \* the provider that constructed the client is mounted
    twin          \* two further Client instances: [readyState, listeners, data, sent, log] each
\* the browser console logger (utils/logger)
VARIABLES
    server,           \* the debug server script that listens on port 3030
    serverConnected,  \* logger: serverConnected
    pendingLogs,      \* logger: pendingLogs
    requests,         \* fetches issued and not yet handled by the server
    responses,        \* responses on their way back to the awaiting fetch
    announceTimer,    \* the 100 ms setTimeout of checkServerConnection is pending
    captured,         \* number of entries sendToServer has built
    connectionRetryTimeout,  \* logger: connectionRetryTimeout is set (not null)
    retryTimers,      \* 5000 ms timers scheduled and not yet fired
    failures          \* fetches that were rejected so far
\* the debug server (simple-debug.js / debugServer.js)
VARIABLES
    logs,             \* the in-memory list `logs`
    currentLogLines,  \* simple-debug.js: currentLogLines
    fileLines,        \* text lines held by the file currentLogFile
    posting           \* the entry an HTTP client of the server posts next
\* a DraggablePanel
VARIABLES
    position,         \* the panel's state `position`: [x, y]
    size              \* the panel's state `size`: [width, height], height a number
thisVars == <<readyState, listeners, data, sent, log, sockets, mounted>>
clientVars == <<thisVars, twin>>
retryVars == <<connectionRetryTimeout, retryTimers, failures>>
loggerVars == <<server, serverConnected, pendingLogs, requests, responses, announceTimer, captured, retryVars>>
debugVars == <<logs, currentLogLines, fileLines, posting>>
panelVars == <<position, size>>
vars == <<clientVars, loggerVars, debugVars, panelVars>>

SendEvent(m) == [t |-> "send", m |-> m, axi |-> "", fn |-> "", idx |-> 0, arg |-> Undefined]
CallEvent(axi, fn, idx, arg) == [t |-> "call", m |-> <<>>, axi |-> axi, fn |-> fn, idx |-> idx, arg |-> arg]
LogEntry(op, msg, axi, fn, events, threw, ret) ==
    [op |-> op, msg |-> msg, axi |-> axi, fn |-> fn, events |-> events, threw |-> threw, ret |-> ret]

\* new Client(url): the fields' initial values and one createSocket call.
Constructed ==
    /\ readyState = "CONNECTING"
    /\ listeners = <<>>
    /\ data = EmptyObject
    /\ sent = <<>>
    /\ log = <<>>
    /\ sockets = 1
    /\ mounted = TRUE
    /\ twin = [c \in Clients |->
                 [readyState |-> "CONNECTING", listeners |-> <<>>, data |-> EmptyObject,
                  sent |-> <<>>, log |-> <<>>]]

\* ---------------------------------------------------------------- the client
\* Derived from the log.
NumOps(op) == Cardinality({i \in 1..Len(log) : log[i].op = op})

\* An onopen that identifies itself before the handshake request.
onopenPidFirst == <<SendEvent(<<"pid", "-1">>), SendEvent(<<"echo", "">>)>>

\* socket.onopen: one send.
onopen == <<SendEvent(<<"echo", "">>)>>

\* The messages the send events among `events` passed to socket.send.
IsSend(e) == e.t = "send"
IsCall(e) == e.t = "call"
SendsOf(events) ==
    [j \in 1..Len(SelectSeq(events, IsSend)) |-> SelectSeq(events, IsSend)[j].m]

\* A burst that announces the template as loaded before registering it.
InitBurstReordered ==
    << <<"pid", "-1">>,
       <<"mainTemplateLoading", "">>,
       <<"mainTemplateLoaded", "">>,
       <<"registerComponents", "/Dashtemplates/RSC - Input Display - Analog/RSC - Input Display - Analog.djson">> >>

\* The four sends made on "-1|echo".
InitBurst ==
    << <<"pid", "-1">>,
       <<"mainTemplateLoading", "">>,
       <<"registerComponents", "/Dashtemplates/RSC - Input Display - Analog/RSC - Input Display - Analog.djson">>,
       <<"mainTemplateLoaded", "">> >>

\* A trigger that does not test the value before dispatching.
AxisQualifiesAlways(dat, axi) == TRUE

\* The test of trigger's `if` for one axis of the registry.
AxisQualifies(dat, axi) == Truthy(Lookup(dat, AXIS[axi]))

\* this.listeners[axi], <<>> when the registry has no such property
ListOf(lst, axi) ==
    LET at == {i \in 1..Len(lst) : lst[i].axi = axi}
    IN IF at = {} THEN <<>> ELSE lst[CHOOSE i \in at : TRUE].fns

\* addListener on the registry lst: the registry after the call, what the
\* call sent or invoked (nothing) and what it returns.
addListenerOf(lst, axi, callback) ==
    LET at == {i \in 1..Len(lst) : lst[i].axi = axi}
    IN [listeners |->
            IF at = {} THEN Append(lst, [axi |-> axi, fns |-> <<callback>>])
            ELSE [i \in 1..Len(lst) |->
                    IF i \in at THEN [lst[i] EXCEPT !.fns = Append(@, callback)]
                    ELSE lst[i]],
        events |-> <<>>,
        ret |-> <<axi, callback>>]

\* What the callbacks of the consumers do when invoked.  "f" and "g" only
\* store the value; "regS" also calls addListener("STEERING", "g") on the
\* client; "picky" throws on a negative number.
Registers(fn) == IF fn = "regS" THEN <<"STEERING", "g">> ELSE <<>>
Throws(fn, arg) == fn = "picky" /\ arg.n < 0
RegEvent(axi, fn, idx) == [t |-> "reg", m |-> <<>>, axi |-> axi, fn |-> fn, idx |-> idx, arg |-> Undefined]
ThrowEvent(axi, fn, idx) == [t |-> "throw", m |-> <<>>, axi |-> axi, fn |-> fn, idx |-> idx, arg |-> Undefined]

\* listeners.forEach((listener) => listener(...)) from element j on: forEach
\* visits the n elements the array had when it started, reading each from
\* the live array; an exception ends the loop and leaves trigger.
RECURSIVE ForEachFrom(_, _, _, _, _, _)
ForEachFrom(axi, j, n, cur, dat, acc) ==
    IF j > n THEN [events |-> acc, listeners |-> cur, threw |-> FALSE]
    ELSE LET fn == ListOf(cur, axi)[j]
             arg == Lookup(dat, AXIS[axi])
             call == CallEvent(axi, fn, j, arg)
         IN IF Throws(fn, arg)
               THEN [events |-> acc \o <<call, ThrowEvent(axi, fn, j)>>, listeners |-> cur, threw |-> TRUE]
            ELSE IF Registers(fn) # <<>>
               THEN ForEachFrom(axi, j + 1, n,
                                addListenerOf(cur, Registers(fn)[1], Registers(fn)[2]).listeners, dat,
                                acc \o <<call, RegEvent(Registers(fn)[1], Registers(fn)[2],
                                                         Len(ListOf(cur, Registers(fn)[1])) + 1)>>)
            ELSE ForEachFrom(axi, j + 1, n, cur, dat, acc \o <<call>>)

\* const listeners = this.listeners[axi]; listeners.forEach(...)
ForEachListener(axi, cur, dat) ==
    ForEachFrom(axi, 1, Len(ListOf(cur, axi)), cur, dat, <<>>)

\* Object.keys(this.listeners).forEach(...) from key k on: keys is the array
\* Object.keys returned, cur the registry as it is now.
RECURSIVE TriggerFrom(_, _, _, _)
TriggerFrom(keys, cur, dat, k) ==
    IF k > Len(keys) THEN [events |-> <<>>, listeners |-> cur, threw |-> FALSE]
    ELSE IF AxisQualifies(dat, keys[k])
        THEN LET r == ForEachListener(keys[k], cur, dat)
             IN IF r.threw THEN r
                ELSE LET rest == TriggerFrom(keys, r.listeners, dat, k + 1)
                     IN [events |-> r.events \o rest.events,
                         listeners |-> rest.listeners,
                         threw |-> rest.threw]
    ELSE TriggerFrom(keys, cur, dat, k + 1)

\* trigger(): the keys in insertion order; what was sent and invoked, the
\* registry afterwards and whether a callback's exception left trigger.
trigger(lst, dat) == TriggerFrom([i \in 1..Len(lst) |-> lst[i].axi], lst, dat, 1)

\* A handler that dispatches the frame before acknowledging it.
OnDataDispatchFirst(message) ==
    LET response == message
        ack == SendEvent(<<"pid", response[1]>>)
        parsed == IF Len(response) >= 2 THEN JSONParse(response[2])
                  ELSE [ok |-> FALSE, v |-> EmptyObject]
    IN IF parsed.ok
          THEN [events |-> trigger(listeners, parsed.v).events \o <<ack>>, data |-> parsed.v,
                listeners |-> listeners, threw |-> FALSE]
          ELSE [events |-> <<>>, data |-> data, listeners |-> listeners, threw |-> TRUE]

\* A handler that swallows the JSON.parse failure and dispatches whatever
\* frame it still holds.
OnDataSwallow(message) ==
    LET response == message
        ack == SendEvent(<<"pid", response[1]>>)
        parsed == IF Len(response) >= 2 THEN JSONParse(response[2])
                  ELSE [ok |-> FALSE, v |-> EmptyObject]
    IN IF parsed.ok
          THEN [events |-> <<ack>> \o trigger(listeners, parsed.v).events, data |-> parsed.v,
                listeners |-> listeners, threw |-> FALSE]
          ELSE [events |-> <<ack>> \o trigger(listeners, data).events, data |-> data,
                listeners |-> listeners, threw |-> FALSE]

\* A handler that merges the components of the new frame into the stored
\* frame instead of replacing it.
OnDataMerge(message) ==
    LET response == message
        ack == SendEvent(<<"pid", response[1]>>)
        parsed == IF Len(response) >= 2 THEN JSONParse(response[2])
                  ELSE [ok |-> FALSE, v |-> EmptyObject]
        Components(f) == IF f.t = "object" /\ f.d.t = "object" /\ f.d.C.t = "object"
                            THEN f.d.C.m ELSE <<>>
        merged == Frame(Components(parsed.v) @@ Components(data))
    IN IF parsed.ok
          THEN [events |-> <<ack>> \o trigger(listeners, merged).events, data |-> merged,
                listeners |-> listeners, threw |-> FALSE]
          ELSE [events |-> <<ack>>, data |-> data, listeners |-> listeners, threw |-> TRUE]

\* A handler that parses the payload before it acknowledges the message.
OnDataParseFirst(message) ==
    LET response == message
        ack == SendEvent(<<"pid", response[1]>>)
        parsed == IF Len(response) >= 2 THEN JSONParse(response[2])
                  ELSE [ok |-> FALSE, v |-> EmptyObject]
    IN IF parsed.ok
          THEN [events |-> <<ack>> \o trigger(listeners, parsed.v).events, data |-> parsed.v,
                listeners |-> listeners, threw |-> FALSE]
          ELSE [events |-> <<>>, data |-> data, listeners |-> listeners, threw |-> TRUE]

\* The else branch of onmessage on a client whose fields are lst and dat:
\* split, ack, parse, store, trigger.  When JSON.parse throws, the statements
\* after it do not run and the exception leaves the handler; so does an
\* exception of a callback.
OnDataOf(lst, dat, message) ==
    LET response == message
        ack == SendEvent(<<"pid", response[1]>>)
        parsed == IF Len(response) >= 2 THEN JSONParse(response[2])
                  ELSE [ok |-> FALSE, v |-> EmptyObject]
        t == trigger(lst, parsed.v)
    IN IF parsed.ok
          THEN [events |-> <<ack>> \o t.events, data |-> parsed.v,
                listeners |-> t.listeners, threw |-> t.threw]
          ELSE [events |-> <<ack>>, data |-> dat, listeners |-> lst, threw |-> TRUE]

\* The else branch of onmessage on this client.
OnData(message) == OnDataOf(listeners, data, message)

\* The branch of onmessage for "-1|echo": four sends.
OnEcho(lst, dat) ==
    [events |-> [i \in 1..Len(InitBurst) |-> SendEvent(InitBurst[i])],
     data |-> dat, listeners |-> lst, threw |-> FALSE]

\* socket.onmessage
onmessage(message) ==
    IF message = EchoAck THEN OnEcho(listeners, data) ELSE OnData(message)

\* socket.onmessage of a client whose fields are lst and dat
onmessageOf(lst, dat, message) ==
    IF message = EchoAck THEN OnEcho(lst, dat) ELSE OnDataOf(lst, dat, message)

\* An addListener that replays the latest frame to the new callback.
addListenerReplay(axi, callback) ==
    LET at == {i \in 1..Len(listeners) : listeners[i].axi = axi}
        n == IF at = {} THEN 0 ELSE Len(listeners[CHOOSE i \in at : TRUE].fns)
    IN [listeners |->
            IF at = {} THEN Append(listeners, [axi |-> axi, fns |-> <<callback>>])
            ELSE [i \in 1..Len(listeners) |->
                    IF i \in at THEN [listeners[i] EXCEPT !.fns = Append(@, callback)]
                    ELSE listeners[i]],
        events |-> IF Truthy(Lookup(data, AXIS[axi]))
                      THEN <<CallEvent(axi, callback, n + 1, Lookup(data, AXIS[axi]))>>
                      ELSE <<>>,
        ret |-> <<axi, callback>>]

\* An addListener that puts the new callback at the head of the axis's list.
addListenerUnshift(axi, callback) ==
    LET at == {i \in 1..Len(listeners) : listeners[i].axi = axi}
    IN [listeners |->
            IF at = {} THEN Append(listeners, [axi |-> axi, fns |-> <<callback>>])
            ELSE [i \in 1..Len(listeners) |->
                    IF i \in at THEN [listeners[i] EXCEPT !.fns = <<callback>> \o @]
                    ELSE listeners[i]],
        events |-> <<>>,
        ret |-> <<axi, callback>>]

\* addListener(axi, callback) on this client
addListener(axi, callback) == addListenerOf(listeners, axi, callback)

\* ---------------------------------------------------------------- actions
\* The transport opens.
Open ==
    /\ readyState = "CONNECTING"
    /\ readyState' = "OPEN"
    /\ sent' = sent \o SendsOf(onopen)
    /\ UNCHANGED <<listeners, data, log, sockets, mounted, loggerVars, debugVars, panelVars, twin>>

\* A delivery whose sends overtake the last send of the message before it.
OnMessageOverlapped ==
    \E message \in Inbound :
        /\ readyState = "OPEN"
        /\ NumOps("message") < MaxMsgs
        /\ LET r == onmessage(message)
           IN /\ data' = r.data
              /\ listeners' = r.listeners
              /\ sent' = IF sent # <<>> /\ sent[Len(sent)][1] = "pid"
                             THEN SubSeq(sent, 1, Len(sent) - 1) \o SendsOf(r.events) \o <<sent[Len(sent)]>>
                             ELSE sent \o SendsOf(r.events)
              /\ log' = Append(log, LogEntry("message", message, "", "", r.events, r.threw, <<>>))
        /\ UNCHANGED <<readyState, sockets, mounted, loggerVars, debugVars, panelVars, twin>>

\* The transport delivers one message.
OnMessage ==
    \E message \in Inbound :
        /\ readyState = "OPEN"
        /\ NumOps("message") < MaxMsgs
        /\ LET r == onmessage(message)
           IN /\ data' = r.data
              /\ listeners' = r.listeners
              /\ sent' = sent \o SendsOf(r.events)
              /\ log' = Append(log, LogEntry("message", message, "", "", r.events, r.threw, <<>>))
        /\ UNCHANGED <<readyState, sockets, mounted, loggerVars, debugVars, panelVars, twin>>


\* A consumer registers a callback.
AddListener ==
    \E reg \in Registrations :
        /\ NumOps("addListener") < MaxRegs
        /\ LET r == addListener(reg[1], reg[2])
           IN /\ listeners' = r.listeners
              /\ sent' = sent \o SendsOf(r.events)
              /\ log' = Append(log, LogEntry("addListener", <<>>, reg[1], reg[2], r.events, FALSE, r.ret))
        /\ UNCHANGED <<readyState, data, sockets, mounted, loggerVars, debugVars, panelVars, twin>>

\* A close handler that calls createSocket again.
CloseReconnects ==
    /\ readyState \in {"CONNECTING", "OPEN"}
    /\ readyState' = "CONNECTING"
    /\ sockets' = sockets + 1
    /\ UNCHANGED <<listeners, data, sent, log, mounted, loggerVars, debugVars, panelVars, twin>>

\* The transport closes or fails; the client has no handler for it.
Close ==
    /\ readyState \in {"CONNECTING", "OPEN"}
    /\ readyState' = "CLOSED"
    /\ UNCHANGED <<listeners, data, sent, log, sockets, mounted, loggerVars, debugVars, panelVars, twin>>

\* The transport delivers a message to a client whose consumers' callbacks
\* register and throw.
OnMessageCb ==
    \E message \in CallbackInbound :
        /\ readyState = "OPEN"
        /\ NumOps("message") < MaxMsgs
        /\ LET r == onmessage(message)
           IN /\ data' = r.data
              /\ listeners' = r.listeners
              /\ sent' = sent \o SendsOf(r.events)
              /\ log' = Append(log, LogEntry("message", message, "", "", r.events, r.threw, <<>>))
        /\ UNCHANGED <<readyState, sockets, mounted, loggerVars, debugVars, panelVars, twin>>

\* Such a consumer registers a callback.
AddListenerCb ==
    \E reg \in CallbackRegistrations :
        /\ NumOps("addListener") < MaxRegs
        /\ LET r == addListener(reg[1], reg[2])
           IN /\ listeners' = r.listeners
              /\ sent' = sent \o SendsOf(r.events)
              /\ log' = Append(log, LogEntry("addListener", <<>>, reg[1], reg[2], r.events, FALSE, r.ret))
        /\ UNCHANGED <<readyState, data, sockets, mounted, loggerVars, debugVars, panelVars, twin>>

\* ---------------------------------------------------------------- two clients
TwinOps == Len(twin[1].log) + Len(twin[2].log)

\* The transport of client c opens.
TwinOpen ==
    \E c \in Clients :
        /\ twin[c].readyState = "CONNECTING"
        /\ twin' = [twin EXCEPT ![c].readyState = "OPEN",
                                ![c].sent = @ \o SendsOf(onopen)]
        /\ UNCHANGED <<thisVars, loggerVars, debugVars, panelVars>>

\* The transport of client c delivers one message.
TwinMessage ==
    \E c \in Clients, message \in TwinInbound :
        /\ twin[c].readyState = "OPEN"
        /\ TwinOps < MaxTwinOps
        /\ LET r == onmessageOf(twin[c].listeners, twin[c].data, message)
           IN twin' = [twin EXCEPT ![c].data = r.data,
                                   ![c].listeners = r.listeners,
                                   ![c].sent = @ \o SendsOf(r.events),
                                   ![c].log = Append(@, LogEntry("message", message, "", "", r.events, r.threw, <<>>))]
        /\ UNCHANGED <<thisVars, loggerVars, debugVars, panelVars>>

\* A registration that lands in a registry all clients share.
TwinAddListenerShared ==
    \E c \in Clients :
        \E reg \in TwinRegistrations(c) :
            /\ TwinOps < MaxTwinOps
            /\ twin' = [d \in Clients |->
                          [twin[d] EXCEPT !.listeners = addListenerOf(twin[d].listeners, reg[1], reg[2]).listeners,
                                          !.log = IF d = c
                                                     THEN Append(@, LogEntry("addListener", <<>>, reg[1], reg[2], <<>>, FALSE, reg))
                                                     ELSE @]]
            /\ UNCHANGED <<thisVars, loggerVars, debugVars, panelVars>>

\* The mount that constructed client c registers a callback on it.
TwinAddListener ==
    \E c \in Clients :
        \E reg \in TwinRegistrations(c) :
            /\ TwinOps < MaxTwinOps
            /\ LET r == addListenerOf(twin[c].listeners, reg[1], reg[2])
               IN twin' = [twin EXCEPT ![c].listeners = r.listeners,
                                       ![c].sent = @ \o SendsOf(r.events),
                                       ![c].log = Append(@, LogEntry("addListener", <<>>, reg[1], reg[2], r.events, FALSE, r.ret))]
            /\ UNCHANGED <<thisVars, loggerVars, debugVars, panelVars>>

\* The provider's effect cleanup, run when the provider unmounts (and between
\* the two mounts of a StrictMode development render): setClient(null).
Unmount ==
    /\ mounted
    /\ mounted' = FALSE
    /\ UNCHANGED <<readyState, listeners, data, sent, log, sockets, loggerVars, debugVars, panelVars, twin>>

\* ---------------------------------------------------------------- debug server
\* simple-debug.js: maximum lines per log file
MAX_LOG_LINES == 500

\* The text of a stack trace is the sequence of its lines; <<>> is the empty
\* string.  A message is one line of text, identified by a number.
NoStack == <<>>
\* the entry both servers build from a POST /log body (`x || default`)
logEntry(body) ==
    [level |-> IF body.level = "" THEN "info" ELSE body.level,
     message |-> body.message,
     stack |-> body.stack]
\* simple-debug.js: startupLog
startupLog == [level |-> "info", message |-> 0, stack |-> NoStack]

\* createNewLogFile(): a new file holding the header line.
createNewLogFile == [currentLogLines |-> 1, fileLines |-> 1]

\* writeLogToFile(entry) on the file state `file`.  currentLogFile is set from
\* startup on, so only the line count decides the rotation.  The entry's text
\* is the message line followed, if there is a stack, by the stack's lines.
writeLogToFile(file, entry) ==
    LET f == IF file.currentLogLines >= MAX_LOG_LINES THEN createNewLogFile ELSE file
        logText == <<entry.message>> \o (IF entry.stack # NoStack THEN entry.stack ELSE <<>>)
    IN [currentLogLines |-> f.currentLogLines + 1,
        fileLines |-> f.fileLines + Len(logText)]

Request(method, url, body, from) == [method |-> method, url |-> url, body |-> body, from |-> from]
NoBody == [level |-> "", message |-> 0, stack |-> NoStack]

\* A handler that refuses the new entry when the list is full.
SimpleDebugKeepsOldest(req) ==
    LET same == [logs |-> logs, currentLogLines |-> currentLogLines, fileLines |-> fileLines]
    IN IF req.method = "OPTIONS" THEN [status |-> 200] @@ same
       ELSE IF req.method = "GET" /\ req.url = "/logs" THEN [status |-> 200] @@ same
       ELSE IF req.method = "POST" /\ req.url = "/log" THEN
            LET pushed == Append(logs, logEntry(req.body))
                file == writeLogToFile([currentLogLines |-> currentLogLines, fileLines |-> fileLines],
                                       logEntry(req.body))
            IN [status |-> 200,
                logs |-> IF Len(pushed) > 1000 THEN logs ELSE pushed,
                currentLogLines |-> file.currentLogLines,
                fileLines |-> file.fileLines]
       ELSE IF req.method = "POST" /\ req.url = "/clear-logs" THEN
            [status |-> 200, logs |-> <<>>,
             currentLogLines |-> createNewLogFile.currentLogLines,
             fileLines |-> createNewLogFile.fileLines]
       ELSE IF req.method = "GET" /\ req.url = "/log-files" THEN [status |-> 200] @@ same
       ELSE [status |-> 404] @@ same

\* simple-debug.js, the request handler: the status it answers with and the
\* server's state afterwards.  Bodies are well-formed JSON.
SimpleDebug(req) ==
    LET same == [logs |-> logs, currentLogLines |-> currentLogLines, fileLines |-> fileLines]
    IN IF req.method = "OPTIONS" THEN [status |-> 200] @@ same
       ELSE IF req.method = "GET" /\ req.url = "/logs" THEN [status |-> 200] @@ same
       ELSE IF req.method = "POST" /\ req.url = "/log" THEN
            LET pushed == Append(logs, logEntry(req.body))
                file == writeLogToFile([currentLogLines |-> currentLogLines, fileLines |-> fileLines],
                                       logEntry(req.body))
            IN [status |-> 200,
                logs |-> IF Len(pushed) > 1000 THEN Tail(pushed) ELSE pushed,
                currentLogLines |-> file.currentLogLines,
                fileLines |-> file.fileLines]
       ELSE IF req.method = "POST" /\ req.url = "/clear-logs" THEN
            [status |-> 200, logs |-> <<>>,
             currentLogLines |-> createNewLogFile.currentLogLines,
             fileLines |-> createNewLogFile.fileLines]
       ELSE IF req.method = "GET" /\ req.url = "/log-files" THEN [status |-> 200] @@ same
       ELSE [status |-> 404] @@ same

\* debugServer.js, the express routes: head /log, get /logs, post /clear-logs,
\* post /log; it writes no file.
DebugServer(req) ==
    LET same == [logs |-> logs, currentLogLines |-> currentLogLines, fileLines |-> fileLines]
    IN IF req.method = "HEAD" /\ req.url = "/log" THEN [status |-> 200] @@ same
       ELSE IF req.method = "GET" /\ req.url = "/logs" THEN [status |-> 200] @@ same
       ELSE IF req.method = "POST" /\ req.url = "/clear-logs" THEN
            [status |-> 200] @@ [same EXCEPT !.logs = <<>>]
       ELSE IF req.method = "POST" /\ req.url = "/log" THEN
            [status |-> 200] @@ [same EXCEPT !.logs = Append(logs, logEntry(req.body))]
       ELSE [status |-> 404] @@ same

Servers == {"simple-debug", "debugServer"}
Handle(req) == IF server = "simple-debug" THEN SimpleDebug(req) ELSE DebugServer(req)

\* The state each script is in once it listens: simple-debug.js has created
\* its first file and logged startupLog; debugServer.js holds nothing.
ServerStarted ==
    /\ server \in Servers
    /\ IF server = "simple-debug"
          THEN /\ logs = <<startupLog>>
               /\ currentLogLines = writeLogToFile(createNewLogFile, startupLog).currentLogLines
               /\ fileLines = writeLogToFile(createNewLogFile, startupLog).fileLines
          ELSE /\ logs = <<>>
               /\ currentLogLines = 0
               /\ fileLines = 0

\* Entries an HTTP client posts: a plain message, and an error with a stack
\* trace of two lines.
PostedEntries ==
    { [level |-> "log", message |-> 1, stack |-> NoStack],
      [level |-> "error", message |-> 1, stack |-> <<"at f", "at g">>] }

\* the messages of the HTTP client are numbered 1..Cycle, then 1 again
Cycle == 3
NextMessage(n) == (n % Cycle) + 1

\* POST /log with the client's entry, handled by simple-debug.js; the
\* client's next entry carries the next number.
PostLog ==
    /\ server = "simple-debug"
    /\ LET r == SimpleDebug(Request("POST", "/log", posting, "client"))
       IN /\ logs' = r.logs
          /\ currentLogLines' = r.currentLogLines
          /\ fileLines' = r.fileLines
    /\ posting' = [posting EXCEPT !.message = NextMessage(posting.message)]
    /\ UNCHANGED <<clientVars, loggerVars, panelVars>>

\* POST /clear-logs, handled by simple-debug.js.
ClearLogs ==
    /\ server = "simple-debug"
    /\ LET r == SimpleDebug(Request("POST", "/clear-logs", NoBody, "client"))
       IN /\ logs' = r.logs
          /\ currentLogLines' = r.currentLogLines
          /\ fileLines' = r.fileLines
    /\ UNCHANGED <<clientVars, loggerVars, panelVars, posting>>

\* ---------------------------------------------------------------- logger
\* console calls the application makes after initLogger
MaxLogs == 2
Levels == {"log", "info", "warn", "error"}

\* response.ok
Ok(status) == status \in 200..299

\* checkServerConnection() up to its await: one HEAD request.
HeadRequest == Request("HEAD", "/log", NoBody, "check")
PostRequest(logData, from) == Request("POST", "/log", logData, from)

\* initLogger() has replaced the console methods and made its first
\* checkServerConnection call, which is awaiting the response.
LoggerStarted ==
    /\ serverConnected = FALSE
    /\ pendingLogs = <<>>
    /\ requests = <<HeadRequest>>
    /\ responses = <<>>
    /\ announceTimer = FALSE
    /\ captured = 0
    /\ connectionRetryTimeout = FALSE
    /\ retryTimers = 0
    /\ failures = 0

\* sendToServer(level, args), where args is one string: builds logData, then
\* queues it and probes the server when not connected, posts it otherwise.
sendToServer(level) ==
    LET logData == [level |-> level, message |-> captured + 1, stack |-> NoStack]
    IN /\ captured' = captured + 1
       /\ IF ~serverConnected
             THEN /\ pendingLogs' = Append(pendingLogs, logData)
                  /\ requests' = Append(requests, HeadRequest)
             ELSE /\ pendingLogs' = pendingLogs
                  /\ requests' = Append(requests, PostRequest(logData, "send"))

\* The application calls console.log / info / warn / error.
ConsoleCall ==
    \E level \in Levels :
        /\ captured < MaxLogs
        /\ sendToServer(level)
        /\ UNCHANGED <<server, serverConnected, responses, announceTimer, retryVars>>
        /\ UNCHANGED <<clientVars, debugVars, panelVars>>

\* The server handles the oldest request in flight and answers it.
ServerHandle ==
    /\ requests # <<>>
    /\ LET req == Head(requests)
           r == Handle(req)
       IN /\ logs' = r.logs
          /\ currentLogLines' = r.currentLogLines
          /\ fileLines' = r.fileLines
          /\ responses' = Append(responses, [ok |-> Ok(r.status), from |-> req.from])
    /\ requests' = Tail(requests)
    /\ UNCHANGED <<server, serverConnected, pendingLogs, announceTimer, captured, retryVars, posting>>
    /\ UNCHANGED <<clientVars, panelVars>>

\* A flush that posts the pending entries and keeps them in pendingLogs.
FetchResolvedKeepsPending ==
    /\ responses # <<>>
    /\ LET response == Head(responses)
           wasConnected == serverConnected
       IN IF response.from = "check"
             THEN /\ serverConnected' = response.ok
                  /\ announceTimer' = (announceTimer \/ (response.ok /\ ~wasConnected))
                  /\ IF response.ok /\ Len(pendingLogs) > 0
                        THEN /\ pendingLogs' = pendingLogs
                             /\ requests' = requests \o
                                   [i \in 1..Len(pendingLogs) |-> PostRequest(pendingLogs[i], "pending")]
                        ELSE UNCHANGED <<pendingLogs, requests>>
             ELSE UNCHANGED <<serverConnected, announceTimer, pendingLogs, requests>>
    /\ responses' = Tail(responses)
    /\ UNCHANGED <<server, captured, retryVars>>
    /\ UNCHANGED <<clientVars, debugVars, panelVars>>

\* A fetch resolves.  For the HEAD of checkServerConnection the rest of the
\* function runs: serverConnected = response.ok, the timer on the first
\* connection, and the pending entries posted in order (the loop awaits each
\* POST; the responses are not looked at).  The server is reachable, so no
\* fetch rejects and no catch block runs.
FetchResolved ==
    /\ responses # <<>>
    /\ LET response == Head(responses)
           wasConnected == serverConnected
       IN IF response.from = "check"
             THEN /\ serverConnected' = response.ok
                  /\ announceTimer' = (announceTimer \/ (response.ok /\ ~wasConnected))
                  /\ IF response.ok /\ Len(pendingLogs) > 0
                        THEN /\ pendingLogs' = <<>>
                             /\ requests' = requests \o
                                   [i \in 1..Len(pendingLogs) |-> PostRequest(pendingLogs[i], "pending")]
                        ELSE UNCHANGED <<pendingLogs, requests>>
             ELSE UNCHANGED <<serverConnected, announceTimer, pendingLogs, requests>>
    /\ responses' = Tail(responses)
    /\ UNCHANGED <<server, captured, retryVars>>
    /\ UNCHANGED <<clientVars, debugVars, panelVars>>

\* The 100 ms timer fires: console.info('Debug server connected and logger
\* is working'), which the replaced console.info passes to sendToServer.
AnnounceTimer ==
    /\ announceTimer
    /\ announceTimer' = FALSE
    /\ sendToServer("info")
    /\ UNCHANGED <<server, serverConnected, responses, retryVars>>
    /\ UNCHANGED <<clientVars, debugVars, panelVars>>

\* ---------------------------------------------------------------- panel
\* window.innerWidth and window.innerHeight
ViewportWidth == 640
ViewportHeight == 480
\* pointer movements of one drag or one resize callback, per axis
Deltas == {-60, 0, 60}
Corners == {"top-left", "top-right", "bottom-left", "bottom-right"}

Max(a, b) == IF a >= b THEN a ELSE b
Min(a, b) == IF a <= b THEN a ELSE b

\* ensurePanelOnScreen(position, panelWidth, panelHeight)
ensurePanelOnScreen(pos, panelWidth, panelHeight) ==
    [x |-> Max(10, Min(pos.x, ViewportWidth - panelWidth - 10)),
     y |-> Max(10, Min(pos.y, ViewportHeight - panelHeight - 10))]

\* handleMouseUp at the end of a drag that moved the pointer by (dx, dy).
handleMouseUp(dx, dy) ==
    ensurePanelOnScreen([x |-> position.x + dx, y |-> position.y + dy], size.width, size.height)

\* handleResize(deltaX, deltaY, resizePosition) for a panel whose height is
\* a number: the new size, and the new position, which is set (and passed
\* through ensurePanelOnScreen) only when the resize moved the top-left corner.
handleResize(deltaX, deltaY, resizePosition) ==
    LET left == resizePosition \in {"top-left", "bottom-left"}
        top == resizePosition \in {"top-left", "top-right"}
        newWidth == Max(200, IF left THEN size.width - deltaX ELSE size.width + deltaX)
        newHeight == Max(150, IF top THEN size.height - deltaY ELSE size.height + deltaY)
        newX == IF left THEN position.x + (size.width - newWidth) ELSE position.x
        newY == IF top THEN position.y + (size.height - newHeight) ELSE position.y
    IN [size |-> [width |-> newWidth, height |-> newHeight],
        position |-> IF newX # position.x \/ newY # position.y
                        THEN ensurePanelOnScreen([x |-> newX, y |-> newY], newWidth, newHeight)
                        ELSE position]

\* A panel of the default width, mounted at an on-screen position.
PanelMounted ==
    /\ position = [x |-> 10, y |-> 10]
    /\ size = [width |-> 320, height |-> 200]

\* A drag of the title bar is completed.
Drag ==
    \E dx \in Deltas, dy \in Deltas :
        /\ position' = handleMouseUp(dx, dy)
        /\ UNCHANGED <<size, clientVars, loggerVars, debugVars>>

\* A corner handle is moved.  The panel is kept at least 20 px smaller than
\* the viewport in each dimension.
Resize ==
    \E deltaX \in Deltas, deltaY \in Deltas, corner \in Corners :
        LET r == handleResize(deltaX, deltaY, corner)
        IN /\ r.size.width <= ViewportWidth - 20
           /\ r.size.height <= ViewportHeight - 20
           /\ size' = r.size
           /\ position' = r.position
           /\ UNCHANGED <<clientVars, loggerVars, debugVars>>

\* fetches that fail
MaxFailures == 2

\* A rejection that schedules a retry whether or not one is pending.
FetchRejectedAlwaysSchedules ==
    /\ requests # <<>>
    /\ failures < MaxFailures
    /\ failures' = failures + 1
    /\ LET req == Head(requests)
       IN IF req.from = "check"
             THEN /\ serverConnected' = FALSE
                  /\ connectionRetryTimeout' = TRUE
                  /\ retryTimers' = retryTimers + 1
                  /\ requests' = Tail(requests)
                  /\ UNCHANGED pendingLogs
          ELSE IF req.from = "pending"
             THEN /\ pendingLogs' = Append(pendingLogs, req.body)
                  /\ requests' = Tail(requests)
                  /\ UNCHANGED <<serverConnected, connectionRetryTimeout, retryTimers>>
          ELSE /\ pendingLogs' = Append(pendingLogs, req.body)
               /\ serverConnected' = FALSE
               /\ requests' = Append(Tail(requests), HeadRequest)
               /\ UNCHANGED <<connectionRetryTimeout, retryTimers>>
    /\ UNCHANGED <<server, responses, announceTimer, captured>>
    /\ UNCHANGED <<clientVars, debugVars, panelVars>>

\* The oldest fetch in flight is rejected before it reaches the server, and
\* the catch block around it runs: for the HEAD of checkServerConnection,
\* serverConnected = false and a retry timer unless one is pending; for a
\* POST of the pending loop, the entry goes back to pendingLogs; for the POST
\* of sendToServer, the entry goes to pendingLogs, serverConnected = false
\* and checkServerConnection is called.
FetchRejected ==
    /\ requests # <<>>
    /\ failures < MaxFailures
    /\ failures' = failures + 1
    /\ LET req == Head(requests)
       IN IF req.from = "check"
             THEN /\ serverConnected' = FALSE
                  /\ IF ~connectionRetryTimeout
                        THEN /\ connectionRetryTimeout' = TRUE
                             /\ retryTimers' = retryTimers + 1
                        ELSE UNCHANGED <<connectionRetryTimeout, retryTimers>>
                  /\ requests' = Tail(requests)
                  /\ UNCHANGED pendingLogs
          ELSE IF req.from = "pending"
             THEN /\ pendingLogs' = Append(pendingLogs, req.body)
                  /\ requests' = Tail(requests)
                  /\ UNCHANGED <<serverConnected, connectionRetryTimeout, retryTimers>>
          ELSE /\ pendingLogs' = Append(pendingLogs, req.body)
               /\ serverConnected' = FALSE
               /\ requests' = Append(Tail(requests), HeadRequest)
               /\ UNCHANGED <<connectionRetryTimeout, retryTimers>>
    /\ UNCHANGED <<server, responses, announceTimer, captured>>
    /\ UNCHANGED <<clientVars, debugVars, panelVars>>

\* The application calls console.log.
ConsoleLog ==
    /\ captured < MaxLogs
    /\ sendToServer("log")
    /\ UNCHANGED <<server, serverConnected, responses, announceTimer, retryVars>>
    /\ UNCHANGED <<clientVars, debugVars, panelVars>>

\* A 5000 ms timer fires: connectionRetryTimeout = null, then
\* checkServerConnection().
RetryTimer ==
    /\ retryTimers > 0
    /\ retryTimers' = retryTimers - 1
    /\ connectionRetryTimeout' = FALSE
    /\ requests' = Append(requests, HeadRequest)
    /\ UNCHANGED <<server, serverConnected, pendingLogs, responses, announceTimer, captured, failures>>
    /\ UNCHANGED <<clientVars, debugVars, panelVars>>

\* ---------------------------------------------------------------- specifications
\* The client alone, next to a started simple-debug.js and logger.
Init ==
    /\ Constructed
    /\ PanelMounted
    /\ server = "simple-debug"
    /\ ServerStarted
    /\ LoggerStarted
    /\ posting \in {startupLog}

Next == Open \/ OnMessage \/ AddListener \/ Close

Spec == Init /\ [][Next]_vars

NextProvider == Open \/ OnMessage \/ AddListener \/ Close \/ Unmount

\* The client together with the provider that owns it.
SpecProvider == Init /\ [][NextProvider]_vars

\* The client with consumers whose callbacks register and throw.
NextCallbacks == Open \/ OnMessageCb \/ AddListenerCb

SpecCallbacks == Init /\ [][NextCallbacks]_vars

\* Two clients side by side.
NextTwin == TwinOpen \/ TwinMessage \/ TwinAddListener

SpecTwin == Init /\ [][NextTwin]_vars

\* The logger in the browser and either debug server.
InitLogger ==
    /\ Constructed
    /\ PanelMounted
    /\ ServerStarted
    /\ LoggerStarted
    /\ posting \in {startupLog}

NextLogger == ConsoleCall \/ ServerHandle \/ FetchResolved \/ AnnounceTimer

SpecLogger == InitLogger /\ [][NextLogger]_vars

\* The logger on a network that may reject fetches.
NextLoggerNet ==
    ConsoleLog \/ ServerHandle \/ FetchResolved \/ AnnounceTimer \/ FetchRejected \/ RetryTimer

SpecLoggerNet == InitLogger /\ [][NextLoggerNet]_vars

\* simple-debug.js and an HTTP client that posts entries of one shape.
InitServer ==
    /\ Constructed
    /\ PanelMounted
    /\ server = "simple-debug"
    /\ ServerStarted
    /\ LoggerStarted
    /\ posting \in PostedEntries

NextServer == PostLog \/ ClearLogs

SpecServer == InitServer /\ [][NextServer]_vars

\* One DraggablePanel in the viewport.
NextPanel == Drag \/ Resize

SpecPanel == Init /\ [][NextPanel]_vars

\* ---------------------------------------------------------------- observers
\* What the properties below read off the log.
MsgOps == {i \in 1..Len(log) : log[i].op = "message"}
IsMsg(entry) == entry.op = "message"
Received == [i \in 1..Len(SelectSeq(log, IsMsg)) |-> SelectSeq(log, IsMsg)[i].msg]


\* The callback invocations of operation i, in order.
CallsIn(i) == SelectSeq(log[i].events, IsCall)

\* The frame operation i received, when its payload parsed.
IsDataMsg(i) == i \in MsgOps /\ log[i].msg # EchoAck
Parses(i) == IsDataMsg(i) /\ Len(log[i].msg) >= 2 /\ JSONParse(log[i].msg[2]).ok
FrameOf(i) == JSONParse(log[i].msg[2]).v

\* The frame holds a member at d.C[key], of whatever value.
HasValueAt(frame, key) ==
    /\ frame.t = "object"
    /\ frame.d.t = "object"
    /\ frame.d.C.t = "object"
    /\ key \in DOMAIN frame.d.C.m
ValueAt(frame, key) == frame.d.C.m[key]

\* The callbacks registered for axis axi before operation i, in call order.
IsRegOf(axi, entry) == entry.op = "addListener" /\ entry.axi = axi
RegPositions(i, axi) == {p \in 1..(i - 1) : IsRegOf(axi, log[p])}
NthRegPosition(i, axi, k) ==
    CHOOSE p \in RegPositions(i, axi) : Cardinality({q \in RegPositions(i, axi) : q <= p}) = k
NumRegsBefore(i, axi) == Cardinality(RegPositions(i, axi))
AxisNames == DOMAIN AXIS

\* The invocations in operation i of the k-th registration of axis axi.
CallsTo(i, axi, k) == {j \in 1..Len(log[i].events) :
                          IsCall(log[i].events[j]) /\ log[i].events[j].axi = axi /\ log[i].events[j].idx = k}

\* ---------------------------------------------------------------- C1
\* C1: after the transport opened and delivered "-1|echo" and nothing else,
\* the client has sent exactly five messages, one per send, in the order
\* echo|, pid|-1, mainTemplateLoading|, registerComponents|<path>,
\* mainTemplateLoaded|.
HandshakeOrder ==
    Received = <<EchoAck>> =>
        sent = << <<"echo", "">>,
                  <<"pid", "-1">>,
                  <<"mainTemplateLoading", "">>,
                  <<"registerComponents", "/Dashtemplates/RSC - Input Display - Analog/RSC - Input Display - Analog.djson">>,
                  <<"mainTemplateLoaded", "">> >>
HandshakeDone == Received = <<EchoAck>> /\ Len(sent) = 5

\* ---------------------------------------------------------------- C2
BurstStarts ==
    {k \in 1..(Len(sent) - 3) :
        /\ sent[k] = <<"pid", "-1">>
        /\ sent[k + 1] = <<"mainTemplateLoading", "">>
        /\ sent[k + 2][1] = "registerComponents"
        /\ sent[k + 3] = <<"mainTemplateLoaded", "">>}
\* C2: on one connection the four-message initialization burst is sent at
\* most once, whatever inbound messages arrive.
BurstAtMostOnce == Cardinality(BurstStarts) <= 1

\* ---------------------------------------------------------------- C3
\* C3: for every inbound message <id>|<payload> that is not the
\* acknowledgement, the handler sends pid|<id>, and sends it before any
\* callback invocation it makes for that message.
AckBeforeDispatch ==
    \A i \in MsgOps :
        (IsDataMsg(i) /\ Len(log[i].msg) >= 2) =>
            \E k \in 1..Len(log[i].events) :
                /\ log[i].events[k] = SendEvent(<<"pid", log[i].msg[1]>>)
                /\ \A j \in 1..Len(log[i].events) : IsCall(log[i].events[j]) => k < j
AckedAndDispatched == \E i \in MsgOps : IsDataMsg(i) /\ CallsIn(i) # <<>>

\* ---------------------------------------------------------------- C4
\* C4: a callback is invoked only by a message whose frame holds a value at
\* the path of the callback's axis, and with that value; it is never invoked
\* with undefined.
OnlyWhenPresent ==
    \A i \in 1..Len(log) : \A j \in 1..Len(log[i].events) :
        IsCall(log[i].events[j]) =>
            /\ Parses(i)
            /\ HasValueAt(FrameOf(i), AXIS[log[i].events[j].axi])
            /\ log[i].events[j].arg = ValueAt(FrameOf(i), AXIS[log[i].events[j].axi])
            /\ log[i].events[j].arg.t # "undefined"
\* a frame that carries one registered axis and lacks another registered one:
\* only the first axis's callback ran
AbsentAxisSkipped ==
    \E i \in MsgOps :
        /\ Parses(i)
        /\ \E a, b \in AxisNames :
            /\ NumRegsBefore(i, a) > 0 /\ ~HasValueAt(FrameOf(i), AXIS[a]) /\ CallsTo(i, a, 1) = {}
            /\ NumRegsBefore(i, b) > 0 /\ HasValueAt(FrameOf(i), AXIS[b]) /\ CallsTo(i, b, 1) # {}

\* ---------------------------------------------------------------- C5
\* C5: for every parsed frame and every axis with a registration, if the
\* frame holds a value at the axis's path, whatever the value (0, false, ""
\* and null included), every registration of the axis is invoked exactly
\* once with that value.
EveryPresentValueDispatched ==
    \A i \in MsgOps : Parses(i) =>
        \A a \in AxisNames :
            (NumRegsBefore(i, a) > 0 /\ HasValueAt(FrameOf(i), AXIS[a])) =>
                \A k \in 1..NumRegsBefore(i, a) :
                    /\ Cardinality(CallsTo(i, a, k)) = 1
                    /\ \A j \in CallsTo(i, a, k) :
                          log[i].events[j].arg = ValueAt(FrameOf(i), AXIS[a])

\* ---------------------------------------------------------------- C6
\* C6: if addListener(A, f) was called before addListener(A, g), then for
\* each frame carrying A both are invoked, f before g.
RegistrationOrderOnEveryFrame ==
    \A i \in MsgOps : Parses(i) =>
        \A a \in AxisNames : HasValueAt(FrameOf(i), AXIS[a]) =>
            \A p, q \in 1..NumRegsBefore(i, a) :
                (p < q /\ log[NthRegPosition(i, a, p)].fn # log[NthRegPosition(i, a, q)].fn) =>
                \E jp \in CallsTo(i, a, p), jq \in CallsTo(i, a, q) : jp < jq

\* ---------------------------------------------------------------- C7
Consecutive(i, j) == i \in MsgOps /\ j \in MsgOps /\ i < j /\ \A m \in MsgOps : ~(i < m /\ m < j)
CarryingSince(p, a) ==
    {i \in MsgOps : i > p /\ Parses(i) /\ HasValueAt(FrameOf(i), AXIS[a])}
Latest(S) == CHOOSE i \in S : \A j \in S : j <= i
\* <<operation, event>> positions of the invocations of registration (a, k)
AllCallsTo(a, k) == UNION {{<<i, j>> : j \in CallsTo(i, a, k)} : i \in 1..Len(log)}
LastCallTo(a, k) ==
    CHOOSE c \in AllCallsTo(a, k) :
        \A d \in AllCallsTo(a, k) : d[1] < c[1] \/ (d[1] = c[1] /\ d[2] <= c[2])
\* C7: when two consecutive frames carry v1 then v2 for an axis, a callback
\* registered for the axis is invoked once with v1 and then once with v2;
\* the last value a subscriber has seen is the value of the most recent
\* frame, arrived since it registered, that carried its axis.
LatestValueWins ==
    /\ \A i, j \in MsgOps : (Consecutive(i, j) /\ Parses(i) /\ Parses(j)) =>
          \A a \in AxisNames :
              (HasValueAt(FrameOf(i), AXIS[a]) /\ HasValueAt(FrameOf(j), AXIS[a])) =>
                  \A k \in 1..NumRegsBefore(i, a) :
                      /\ Cardinality(CallsTo(i, a, k)) = 1
                      /\ Cardinality(CallsTo(j, a, k)) = 1
                      /\ \A c \in CallsTo(i, a, k) : log[i].events[c].arg = ValueAt(FrameOf(i), AXIS[a])
                      /\ \A c \in CallsTo(j, a, k) : log[j].events[c].arg = ValueAt(FrameOf(j), AXIS[a])
    /\ \A a \in AxisNames : \A k \in 1..NumRegsBefore(Len(log) + 1, a) :
          LET since == CarryingSince(NthRegPosition(Len(log) + 1, a, k), a)
          IN (since # {} /\ AllCallsTo(a, k) # {}) =>
                log[LastCallTo(a, k)[1]].events[LastCallTo(a, k)[2]].arg
                      = ValueAt(FrameOf(Latest(since)), AXIS[a])

HandlerNeverThrows == \A i \in 1..Len(log) : ~log[i].threw

\* ---------------------------------------------------------------- C10
IsMalformed(entry) ==
    /\ entry.op = "message"
    /\ entry.msg # EchoAck
    /\ ~(Len(entry.msg) >= 2 /\ JSONParse(entry.msg[2]).ok)
MalformedIsolatedInv ==
    \A i \in MsgOps : IsMalformed(log[i]) =>
        /\ CallsIn(i) = <<>>
        /\ \A j \in MsgOps : (j > i /\ Parses(j)) =>
              /\ log[j].events[1] = SendEvent(<<"pid", log[j].msg[1]>>)
              /\ \A a \in AxisNames : \A k \in 1..NumRegsBefore(j, a) :
                    IF HasValueAt(FrameOf(j), AXIS[a]) /\ Truthy(ValueAt(FrameOf(j), AXIS[a]))
                       THEN /\ Cardinality(CallsTo(j, a, k)) = 1
                            /\ \A c \in CallsTo(j, a, k) :
                                  log[j].events[c].arg = ValueAt(FrameOf(j), AXIS[a])
                       ELSE CallsTo(j, a, k) = {}
\* the handler's step on a malformed message changes nothing that decides
\* how a later message is handled
MalformedKeepsOpen ==
    (Len(log') = Len(log) + 1 /\ IsMalformed(log'[Len(log')])) =>
        /\ readyState' = "OPEN"
        /\ listeners' = listeners
        /\ data' = data
\* C10: a message whose payload does not parse invokes no callback, leaves
\* the connection open and the registry and stored frame as they were, and
\* every well-formed frame after it is acked first and then dispatched as
\* trigger dispatches any frame: once to each registration of each axis
\* whose value passes trigger's test, to no other.
MalformedIsolated == []MalformedIsolatedInv /\ [][MalformedKeepsOpen]_vars
\* a malformed message, then a well-formed frame that was dispatched
MalformedThenDispatched ==
    \E i, j \in MsgOps :
        /\ i < j
        /\ IsMalformed(log[i]) /\ Len(log[i].msg) >= 2
        /\ Parses(j) /\ CallsIn(j) # <<>>
        /\ readyState = "OPEN"

\* ---------------------------------------------------------------- C11
\* C11: between the sending of echo| and the arrival of "-1|echo", an inbound
\* message other than "-1|echo" is ignored: it is not processed as a data
\* frame, replaces no stored frame and invokes no callback.
HandshakingIgnores ==
    (\A i \in MsgOps : log[i].msg # EchoAck) =>
        /\ data = EmptyObject
        /\ \A i \in MsgOps : CallsIn(i) = <<>>

\* ---------------------------------------------------------------- C12
SilentWhileConnecting ==
    /\ readyState = "CONNECTING" => sent = <<>>
    /\ sent # <<>> => sent[1] = <<"echo", "">>
FirstSendOnOpen ==
    (sent = <<>> /\ sent' # <<>>) => (readyState = "CONNECTING" /\ readyState' = "OPEN")
\* C12: while the socket is connecting the client sends nothing; the first
\* message it ever sends is echo|, and it is sent by the step on which the
\* transport opens.
EchoFirst == []SilentWhileConnecting /\ [][FirstSendOnOpen]_vars
\* registrations were made while connecting, then the transport opened
OpenedAfterRegistering ==
    /\ readyState = "OPEN"
    /\ sent = << <<"echo", "">> >>
    /\ NumOps("addListener") > 0

\* ---------------------------------------------------------------- C13
ClosedStep ==
    readyState = "CLOSED" =>
        /\ readyState' = "CLOSED"
        /\ sockets' = sockets
        /\ sent' = sent
        /\ data' = data
        /\ Len(log') > Len(log) =>
              /\ log'[Len(log')].op # "message"
              /\ SelectSeq(log'[Len(log')].events, IsCall) = <<>>
ClosingStep ==
    (readyState # "CLOSED" /\ readyState' # readyState /\ readyState' # "OPEN") =>
        /\ readyState' = "CLOSED"
        /\ sockets' = sockets
\* C13: a transport close or error leaves the socket closed for good: the
\* step creates no socket, and from then on no socket is created, nothing is
\* sent, no message is handled and no callback is invoked.
ClosedIsTerminal == [][ClosingStep /\ ClosedStep]_vars
\* a connection that had dispatched a frame was closed, and a callback was
\* registered afterwards
ClosedAfterTraffic ==
    /\ readyState = "CLOSED"
    /\ \E i \in MsgOps : CallsIn(i) # <<>>
    /\ log[Len(log)].op = "addListener"

\* ---------------------------------------------------------------- C14
\* C14: one instance evaluates `new WebSocket` exactly once, in its
\* constructor; no later event creates another socket.
OneSocket == sockets = 1
\* the instance went through open, traffic and close
LifeCycleDone ==
    /\ readyState = "CLOSED"
    /\ Len(sent) >= 5
    /\ sockets = 1

\* ---------------------------------------------------------------- C15
\* C15: once the provider that constructed the client has unmounted, the
\* client's socket is closed.
TornDownOnUnmount == ~mounted => readyState = "CLOSED"

\* ---------------------------------------------------------------- C16
AddListenerStep ==
    (Len(log') = Len(log) + 1 /\ log'[Len(log')].op = "addListener") =>
        LET e == log'[Len(log')]
        IN /\ ListOf(listeners', e.axi) = Append(ListOf(listeners, e.axi), e.fn)
           /\ \A b \in AxisNames \ {e.axi} : ListOf(listeners', b) = ListOf(listeners, b)
           /\ readyState' = readyState
           /\ sockets' = sockets
           /\ data' = data
           /\ sent' = sent
           /\ e.events = <<>>
           /\ e.ret = <<e.axi, e.fn>>
\* C16: in any connection state addListener(axis, cb) appends cb at the end
\* of the axis's list (an absent list counts as empty), leaves the other
\* lists and the connection as they were, sends nothing, invokes nothing and
\* returns the pair [axis, cb].
AddListenerFrame == [][AddListenerStep]_vars
\* an axis holds two callbacks, f before g, the second added after the close
TwoOnOneAxis ==
    /\ ListOf(listeners, "STEERING") = <<"f", "g">>
    /\ readyState = "CLOSED"
    /\ log # <<>> /\ log[Len(log)].op = "addListener"

\* ---------------------------------------------------------------- C20
\* C20: when a frame carries a value for an axis and the next frame parses
\* but holds nothing at that axis's path, the next frame invokes no callback
\* of that axis.
NoMerging ==
    \A i, j \in MsgOps : (Consecutive(i, j) /\ Parses(i) /\ Parses(j)) =>
        \A a \in AxisNames :
            (HasValueAt(FrameOf(i), AXIS[a]) /\ ~HasValueAt(FrameOf(j), AXIS[a])) =>
                \A k \in 1..NumRegsBefore(j, a) : CallsTo(j, a, k) = {}
\* a registered axis was dispatched from one frame and is missing from the
\* next frame, which invoked nothing for it
DroppedAxisSilent ==
    \E i, j \in MsgOps : \E a \in AxisNames :
        /\ Consecutive(i, j) /\ Parses(i) /\ Parses(j)
        /\ HasValueAt(FrameOf(i), AXIS[a]) /\ ~HasValueAt(FrameOf(j), AXIS[a])
        /\ CallsTo(i, a, 1) # {}
        /\ CallsTo(j, a, 1) = {}

\* ---------------------------------------------------------------- C17
Stored(n) == \E i \in 1..Len(logs) : logs[i].message = n
Quiescent == requests = <<>> /\ responses = <<>> /\ ~announceTimer
\* C17: with simple-debug.js running and reachable, every entry captured
\* from a console call is in the server's in-memory list once every request,
\* response and timer of the logger has been served.
CapturedAreStored ==
    (server = "simple-debug" /\ Quiescent) => \A n \in 1..captured : Stored(n)

\* ---------------------------------------------------------------- C18
\* C18: the current log file never holds more than MAX_LOG_LINES lines,
\* the header and every line of a stack trace counted.
FileWithinLimit == fileLines <= MAX_LOG_LINES

\* ---------------------------------------------------------------- C19
\* C19: after any sequence of completed drags and corner resizes the panel
\* lies inside the viewport with a margin of 10 px on every side.
PanelOnScreen ==
    /\ position.x >= 10
    /\ position.y >= 10
    /\ position.x + size.width <= ViewportWidth - 10
    /\ position.y + size.height <= ViewportHeight - 10

\* ---------------------------------------------------------------- C21
IsPid(m) == m[1] = "pid"
\* C21: messages are handled one after the other in arrival order: the
\* pid|<id> messages sent are, in order, the ids of the messages received
\* (the id of "-1|echo" being -1), each handler's sends and callbacks being
\* complete before the next message's handler starts.
AcksInArrivalOrder ==
    SelectSeq(sent, IsPid) = [i \in 1..Len(Received) |-> <<"pid", Received[i][1]>>]
\* a dispatched frame with id 7 was followed by a frame with id 42
TwoIdsInOrder ==
    \E i, j \in MsgOps :
        /\ i < j
        /\ log[i].msg[1] = "7" /\ CallsIn(i) # <<>>
        /\ log[j].msg[1] = "42"

\* ---------------------------------------------------------------- C25
\* C25: every inbound message other than "-1|echo" makes the client send
\* exactly one message, pid|<x> with x the text before the first `|`, also
\* when the payload does not parse; the pid messages sent outside the
\* handshake bursts are as many as such messages received.
ExactlyOneAck ==
    /\ \A i \in MsgOps : IsDataMsg(i) =>
          SendsOf(log[i].events) = << <<"pid", log[i].msg[1]>> >>
    /\ Len(SelectSeq(sent, IsPid)) - Cardinality({i \in MsgOps : log[i].msg = EchoAck})
          = Cardinality({i \in MsgOps : IsDataMsg(i)})
\* a message whose payload did not parse was acknowledged all the same
AckedThoughMalformed ==
    \E i \in MsgOps :
        /\ IsMalformed(log[i])
        /\ log[i].threw
        /\ SendsOf(log[i].events) = << <<"pid", log[i].msg[1]>> >>

\* ---------------------------------------------------------------- C22
\* C22: a frame whose payload text holds a `|` is parsed whole and
\* dispatched like any other: the handler does not throw, stores the frame
\* {"d":{"C":{"1_2":"L|R"}}} and invokes each STEERING callback with "L|R".
PipedPayloadDispatched ==
    \A i \in MsgOps : log[i].msg = PipeMsg =>
        /\ ~log[i].threw
        /\ \A k \in 1..NumRegsBefore(i, "STEERING") :
              \E j \in CallsTo(i, "STEERING", k) : log[i].events[j].arg = JString("L|R")

\* ---------------------------------------------------------------- C23
\* C23: a callback registered by another callback while a frame is being
\* dispatched is not invoked for that frame.
NoCallInRegisteringFrame ==
    \A i \in MsgOps : \A p, q \in 1..Len(log[i].events) :
        (p < q /\ log[i].events[p].t = "reg" /\ log[i].events[q].t = "call") =>
            ~(/\ log[i].events[q].axi = log[i].events[p].axi
              /\ log[i].events[q].idx = log[i].events[p].idx)

\* ---------------------------------------------------------------- C24
TwinIsCall(e) == e.t = "call"
TwinIsPid(m) == m[1] = "pid"
TwinIsMsg(entry) == entry.op = "message"
TwinIsolatedInv ==
    \A c \in Clients :
        /\ \A i \in 1..Len(twin[c].log) : \A j \in 1..Len(twin[c].log[i].events) :
              LET e == twin[c].log[i].events[j]
              IN e.t = "call" =>
                    \E p \in 1..(i - 1) :
                        /\ twin[c].log[p].op = "addListener"
                        /\ twin[c].log[p].axi = e.axi
                        /\ twin[c].log[p].fn = e.fn
        /\ SelectSeq(twin[c].sent, TwinIsPid)
              = [i \in 1..Len(SelectSeq(twin[c].log, TwinIsMsg)) |->
                    <<"pid", SelectSeq(twin[c].log, TwinIsMsg)[i].msg[1]>>]
        /\ \A a \in AxisNames : \A k \in 1..Len(ListOf(twin[c].listeners, a)) :
              \E p \in 1..Len(twin[c].log) :
                  /\ twin[c].log[p].op = "addListener"
                  /\ twin[c].log[p].axi = a
                  /\ twin[c].log[p].fn = ListOf(twin[c].listeners, a)[k]
TwinIsolatedStep ==
    \A c \in Clients : twin'[c] # twin[c] => \A d \in Clients \ {c} : twin'[d] = twin[d]
\* C24: with two clients alive, a message on one client's connection invokes
\* only callbacks registered on that client and is acknowledged on that
\* client's socket only; a registration changes only its own client's
\* registry; every step changes one client and leaves the other as it was.
ClientsIsolated == []TwinIsolatedInv /\ [][TwinIsolatedStep]_vars
\* both clients hold a STEERING callback; a frame arrived on client 1 only
OneOfTwoServed ==
    /\ ListOf(twin[1].listeners, "STEERING") = <<"f">>
    /\ ListOf(twin[2].listeners, "STEERING") = <<"g">>
    /\ twin[2].readyState = "OPEN"
    /\ \E i \in 1..Len(twin[1].log) : SelectSeq(twin[1].log[i].events, TwinIsCall) # <<>>
    /\ twin[2].sent = << <<"echo", "">> >>

\* ---------------------------------------------------------------- C26
ThrewIn(i) == \E j \in 1..Len(log[i].events) : log[i].events[j].t = "throw"
ThrowIsolatedInv ==
    \A i, j \in MsgOps :
        (Consecutive(i, j) /\ ThrewIn(i) /\ Parses(j) /\ ~ThrewIn(j)) =>
            /\ log[j].events[1] = SendEvent(<<"pid", log[j].msg[1]>>)
            /\ \A a \in AxisNames : HasValueAt(FrameOf(j), AXIS[a]) =>
                  \A k \in 1..NumRegsBefore(j, a) : Cardinality(CallsTo(j, a, k)) = 1
ThrowKeepsRegistry ==
    (/\ Len(log') = Len(log) + 1
     /\ \E j \in 1..Len(log'[Len(log')].events) : log'[Len(log')].events[j].t = "throw"
     /\ \A j \in 1..Len(log'[Len(log')].events) : log'[Len(log')].events[j].t # "reg")
        => listeners' = listeners
\* C26: a callback that throws while a frame is dispatched leaves the
\* registry as it was, and the next frame is acked and dispatched once to
\* every callback registered for an axis the frame carries.
ThrowIsolated == []ThrowIsolatedInv /\ [][ThrowKeepsRegistry]_vars

\* ---------------------------------------------------------------- C27
IsPost(req) == req.method = "POST"
\* the places an entry can be: pendingLogs, a POST in flight, the server
Places(n) ==
    Cardinality({i \in 1..Len(pendingLogs) : pendingLogs[i].message = n})
    + Cardinality({i \in 1..Len(requests) : IsPost(requests[i]) /\ requests[i].body.message = n})
    + Cardinality({i \in 1..Len(logs) : logs[i].message = n})
FlushedOnceConnected ==
    (serverConnected /\ Quiescent /\ retryTimers = 0) => pendingLogs = <<>>

\* ---------------------------------------------------------------- C30
\* C30: at most one retry timer is outstanding, and connectionRetryTimeout
\* is set exactly while it is; the timer clears the marker as it fires.
OneRetryTimer ==
    /\ retryTimers <= 1
    /\ connectionRetryTimeout <=> (retryTimers = 1)
\* two connection checks failed and one timer is pending
TwoFailuresOneTimer ==
    /\ failures = 2
    /\ retryTimers = 1
    /\ serverConnected = FALSE
    /\ \A i \in 1..Len(requests) : requests[i].method # "HEAD"

\* ---------------------------------------------------------------- C29
\* GET /logs answers with the list in memory
GetLogs == logs
\* C29: after any sequence of POST /log and POST /clear-logs the list in
\* memory holds at most 1000 entries, they are consecutive arrivals in the
\* order they arrived, the last one is the latest arrival, and a POST to a
\* full list removes the oldest entry only.
MemoryInv ==
    /\ Len(GetLogs) <= 1000
    /\ \A i \in 1..(Len(GetLogs) - 1) :
          /\ GetLogs[i + 1] # startupLog
          /\ GetLogs[i] # startupLog =>
                GetLogs[i + 1] = [posting EXCEPT !.message = NextMessage(GetLogs[i].message)]
    /\ (GetLogs # <<>> /\ GetLogs[Len(GetLogs)] # startupLog) =>
          NextMessage(GetLogs[Len(GetLogs)].message) = posting.message
MemoryStep ==
    logs' # <<>> =>
        logs' = IF Len(logs) < 1000 THEN Append(logs, posting) ELSE Append(Tail(logs), posting)
MemoryCapped == []MemoryInv /\ [][MemoryStep]_vars
\* the list is full and the startup entry has been removed
OldestRemoved ==
    /\ Len(logs) = 1000
    /\ logs[1] # startupLog
====
